---- MODULE Spec2Model ----
(***************************************************************************)
(* Model of ggez's event module (src/event.rs): the EventHandler trait and *)
(* the main loop run().  The state is the loop's locals (continuing, dt),  *)
(* the events poll_iter() has yielded in the current iteration, the        *)
(* timer's tick counter, the value run() returns, and the record of        *)
(* handler methods called in the current iteration.                        *)
(***************************************************************************)
EXTENDS Integers, Sequences, FiniteSets, TLC

VARIABLES pc, handler, continuing, ticks, drain, dt, log, updates, draws, result

vars == <<pc, handler, continuing, ticks, drain, dt, log, updates, draws, result>>

(* ---------------- bounds ---------------- *)
MaxIter == 2
MaxDrain == 2

(* ---------------- values ---------------- *)
TwoPow16 == 65536

Escape == "Escape"
NoKey == "None"
Keycodes == {"A", Escape}
OptKeycodes == Keycodes \cup {NoKey}
KeyArgs == {<<"NOMOD", FALSE>>, <<"LSHIFTMOD", TRUE>>}
Sizes == {<<800, 600>>, <<-1, 600>>}
Deltas == {16, 17}

NoErr == [kind |-> "None", msg |-> ""]
HandlerErrors == {[kind |-> "Handler", msg |-> "E1"], [kind |-> "Handler", msg |-> "E2"]}
PumpErrors == {"no event pump"}

Ok == [tag |-> "Ok", err |-> NoErr]
Err(e) == [tag |-> "Err", err |-> e]
Pending == [tag |-> "Pending", err |-> NoErr]
HandlerResults == {Ok} \cup {Err(e) : e \in HandlerErrors}
(* what ctx.sdl_context.event_pump() returns, its error converted by `?` *)
PumpResults == {Ok} \cup {Err([kind |-> "Sdl", msg |-> s]) : s \in PumpErrors}

(* sdl2::event::Event, the variants run() matches on *)
Events ==
    {[type |-> "Quit"]}
    \cup {[type |-> "KeyDown", keycode |-> k, keymod |-> a[1], repeat |-> a[2]] :
            k \in OptKeycodes, a \in KeyArgs}
    \cup {[type |-> "KeyUp", keycode |-> k, keymod |-> a[1], repeat |-> a[2]] :
            k \in OptKeycodes, a \in KeyArgs}
    \cup {[type |-> "MouseButtonDown", mouse_btn |-> "Left", x |-> 1, y |-> 2]}
    \cup {[type |-> "MouseButtonUp", mouse_btn |-> "Left", x |-> 1, y |-> 2]}
    \cup {[type |-> "MouseMotion", mousestate |-> "ms", x |-> 1, y |-> 2, xrel |-> 3, yrel |-> 4]}
    \cup {[type |-> "MouseWheel", x |-> 1, y |-> 2]}
    \cup {[type |-> "ControllerButtonDown", button |-> "A", which |-> 7]}
    \cup {[type |-> "ControllerButtonUp", button |-> "A", which |-> 7]}
    \cup {[type |-> "ControllerAxisMotion", axis |-> "LeftX", value |-> 5, which |-> 7]}
    \cup {[type |-> "Window", win_event |-> "FocusGained"]}
    \cup {[type |-> "Window", win_event |-> "FocusLost"]}
    \cup {[type |-> "Window", win_event |-> "Resized", w |-> s[1], h |-> s[2]] : s \in Sizes}
    \cup {[type |-> "Window", win_event |-> "Moved"]}
    \cup {[type |-> "TextInput"]}

EventsOf(type) == {ev \in Events : ev.type = type}
Drains == UNION {[1..n -> Events] : n \in 0..MaxDrain}

Handlers == {"default", "custom"}

(* ---------------- the handler and the collaborators ---------------- *)

(* EventHandler::quit_event: the default body returns false; an            *)
(* implementation may return either value.                                *)
QuitEventResults(h) == IF h = "default" THEN {FALSE} ELSE BOOLEAN

(* `w as u32`: the two's-complement reinterpretation of an i32, n mod 2^32, *)
(* written as its two 16-bit halves <<high, low>>                          *)
AsU32(n) == <<(n \div TwoPow16) % TwoPow16, n % TwoPow16>>

(* Context::quit() as the specification describes it: it signals the run  *)
(* to terminate by clearing the continuation flag, calls no handler       *)
(* method, and succeeds.                                                   *)
CtxQuit_Keep(cont) == cont
CtxQuit_Toggle(cont) == ~cont
CtxQuit(cont) == FALSE

CtxQuitCalls_Quit == << <<"quit_event", TRUE>> >>
CtxQuitCalls == <<>>

(* ---------------- the match arms of run() ---------------- *)

(* continuing = state.quit_event() *)
QuitArm_Negated(cont, ret) == ~ret
QuitArm_Latched(cont, ret) == cont /\ ret
QuitArm(cont, ret) == ret

(* key == keyboard::Keycode::Escape *)
IsEscape_Never(key) == FALSE
IsEscape(key) == key = Escape

(* handler calls made by the KeyDown arm *)
KeyDownArm_NoOptionCheck(ev) ==
    IF IsEscape(ev.keycode) THEN CtxQuitCalls
    ELSE << <<"key_down_event", ev.keycode, ev.keymod, ev.repeat>> >>
KeyDownArm(ev) ==
    IF ev.keycode = NoKey THEN <<>>
    ELSE IF IsEscape(ev.keycode) THEN CtxQuitCalls
    ELSE << <<"key_down_event", ev.keycode, ev.keymod, ev.repeat>> >>

(* continuation flag left by the KeyDown arm: only ctx.quit() can touch it; *)
(* ctx.quit() succeeds, so its `?` never returns early                     *)
KeyDownContinuing(ev, cont) ==
    IF ev.keycode # NoKey /\ IsEscape(ev.keycode) THEN CtxQuit(cont) ELSE cont

KeyUpArm_EscapeSpecial(ev) ==
    IF ev.keycode = NoKey \/ ev.keycode = Escape THEN <<>>
    ELSE << <<"key_up_event", ev.keycode, ev.keymod, ev.repeat>> >>
KeyUpArm(ev) ==
    IF ev.keycode = NoKey THEN <<>>
    ELSE << <<"key_up_event", ev.keycode, ev.keymod, ev.repeat>> >>

MouseButtonDownArm(ev) == << <<"mouse_button_down_event", ev.mouse_btn, ev.x, ev.y>> >>
MouseButtonUpArm(ev) == << <<"mouse_button_up_event", ev.mouse_btn, ev.x, ev.y>> >>
MouseMotionArm_Swapped(ev) == << <<"mouse_motion_event", ev.mousestate, ev.xrel, ev.yrel, ev.x, ev.y>> >>
MouseMotionArm(ev) == << <<"mouse_motion_event", ev.mousestate, ev.x, ev.y, ev.xrel, ev.yrel>> >>
MouseWheelArm(ev) == << <<"mouse_wheel_event", ev.x, ev.y>> >>
ControllerButtonDownArm(ev) == << <<"controller_button_down_event", ev.button, ev.which>> >>
ControllerButtonUpArm(ev) == << <<"controller_button_up_event", ev.button, ev.which>> >>
ControllerAxisArm(ev) == << <<"controller_axis_event", ev.axis, ev.value, ev.which>> >>

(* the three Window arms; every other win_event falls to `_ => {}` *)
WindowArm_OtherIsFocusLost(ev) ==
    IF ev.win_event = "FocusGained" THEN << <<"focus_event", TRUE>> >>
    ELSE IF ev.win_event = "Resized" THEN << <<"resize_event", AsU32(ev.w), AsU32(ev.h)>> >>
    ELSE << <<"focus_event", FALSE>> >>
WindowArm(ev) ==
    IF ev.win_event = "FocusGained" THEN << <<"focus_event", TRUE>> >>
    ELSE IF ev.win_event = "FocusLost" THEN << <<"focus_event", FALSE>> >>
    ELSE IF ev.win_event = "Resized" THEN << <<"resize_event", AsU32(ev.w), AsU32(ev.h)>> >>
    ELSE <<>>

(* `while continuing` *)
WhileNext(cont) == IF cont THEN "tick" ELSE "done"

(* `ctx.sdl_context.event_pump()?` *)
AfterAcquire_Ignore(r) == "while"
AfterAcquire(r) == IF r.tag = "Ok" THEN "while" ELSE "done"

(* `state.update(ctx, dt)?` and `state.draw(ctx)?` *)
AfterUpdate_Ignore(r) == "draw"
AfterUpdate_SkipDraw(r) == IF r.tag = "Ok" THEN "while" ELSE "done"
AfterUpdate(r) == IF r.tag = "Ok" THEN "draw" ELSE "done"
AfterDraw_Ignore(r) == "while"
AfterDraw(r) == IF r.tag = "Ok" THEN "while" ELSE "done"
Propagate(r) == IF r.tag = "Ok" THEN Pending ELSE r

(* ---------------- state machine ---------------- *)

Init ==
    /\ pc = "acquire"
    /\ handler \in Handlers
    /\ continuing = TRUE
    /\ ticks = 0
    /\ drain = <<>>
    /\ dt = 0
    /\ log = <<>>
    /\ updates = 0
    /\ draws = 0
    /\ result = Pending

(* let mut event_pump = ctx.sdl_context.event_pump()?; let mut continuing = true; *)
Acquire ==
    /\ pc = "acquire"
    /\ \E r \in PumpResults :
          /\ pc' = AfterAcquire(r)
          /\ result' = Propagate(r)
    /\ continuing' = TRUE
    /\ UNCHANGED <<handler, ticks, drain, dt, log, updates, draws>>

(* while continuing { ... }  Ok(()) *)
While ==
    /\ pc = "while"
    /\ pc' = WhileNext(continuing)
    /\ result' = IF WhileNext(continuing) = "done" THEN Ok ELSE result
    /\ UNCHANGED <<handler, continuing, ticks, drain, dt, log, updates, draws>>

(* ctx.timer_context.tick(); event_pump.poll_iter() *)
Tick ==
    /\ pc = "tick"
    /\ ticks < MaxIter
    /\ ticks' = ticks + 1
    /\ drain' = <<>>
    /\ dt' = 0
    /\ log' = <<>>
    /\ pc' = "poll"
    /\ UNCHANGED <<handler, continuing, updates, draws, result>>

(* the number of events poll_iter() has yielded in this iteration *)
pos == Len(drain)

(* poll_iter() yields the next pending event of the source *)
Polling == pc = "poll" /\ pos < MaxDrain

Consume_Prepend(ev, calls, cont) ==
    /\ drain' = Append(drain, ev)
    /\ log' = calls \o log
    /\ continuing' = cont
    /\ UNCHANGED <<pc, handler, ticks, dt, updates, draws, result>>
Consume_BreakWhenCleared(ev, calls, cont) ==
    /\ drain' = Append(drain, ev)
    /\ log' = log \o calls
    /\ continuing' = cont
    /\ IF cont THEN UNCHANGED <<pc, dt>> ELSE (pc' = "update" /\ dt' \in Deltas)
    /\ UNCHANGED <<handler, ticks, updates, draws, result>>
Consume(ev, calls, cont) ==
    /\ drain' = Append(drain, ev)
    /\ log' = log \o calls
    /\ continuing' = cont
    /\ UNCHANGED <<pc, handler, ticks, dt, updates, draws, result>>

DispatchQuit ==
    /\ Polling
    /\ \E ev \in EventsOf("Quit"), ret \in QuitEventResults(handler) :
          Consume(ev, << <<"quit_event", ret>> >>, QuitArm(continuing, ret))

DispatchKeyDown ==
    /\ Polling
    /\ \E ev \in EventsOf("KeyDown") :
          Consume(ev, KeyDownArm(ev), KeyDownContinuing(ev, continuing))

DispatchKeyUp ==
    Polling /\ \E ev \in EventsOf("KeyUp") : Consume(ev, KeyUpArm(ev), continuing)

DispatchMouseButtonDown ==
    Polling /\ \E ev \in EventsOf("MouseButtonDown") :
                  Consume(ev, MouseButtonDownArm(ev), continuing)

DispatchMouseButtonUp ==
    Polling /\ \E ev \in EventsOf("MouseButtonUp") :
                  Consume(ev, MouseButtonUpArm(ev), continuing)

DispatchMouseMotion ==
    Polling /\ \E ev \in EventsOf("MouseMotion") : Consume(ev, MouseMotionArm(ev), continuing)

DispatchMouseWheel ==
    Polling /\ \E ev \in EventsOf("MouseWheel") : Consume(ev, MouseWheelArm(ev), continuing)

DispatchControllerButtonDown ==
    Polling /\ \E ev \in EventsOf("ControllerButtonDown") :
                  Consume(ev, ControllerButtonDownArm(ev), continuing)

DispatchControllerButtonUp ==
    Polling /\ \E ev \in EventsOf("ControllerButtonUp") :
                  Consume(ev, ControllerButtonUpArm(ev), continuing)

DispatchControllerAxis ==
    Polling /\ \E ev \in EventsOf("ControllerAxisMotion") :
                  Consume(ev, ControllerAxisArm(ev), continuing)

DispatchWindow ==
    Polling /\ \E ev \in EventsOf("Window") : Consume(ev, WindowArm(ev), continuing)

(* _ => {} *)
DispatchOther ==
    Polling /\ \E ev \in EventsOf("TextInput") : Consume(ev, <<>>, continuing)

(* poll_iter() yields None; let dt = timer::get_delta(ctx); *)
GetDelta ==
    /\ pc = "poll"
    /\ dt' \in Deltas
    /\ pc' = "update"
    /\ UNCHANGED <<handler, continuing, ticks, drain, log, updates, draws, result>>

(* state.update(ctx, dt)?; *)
Update ==
    /\ pc = "update"
    /\ \E r \in HandlerResults :
          /\ log' = Append(log, <<"update", dt, r>>)
          /\ pc' = AfterUpdate(r)
          /\ result' = Propagate(r)
    /\ updates' = updates + 1
    /\ UNCHANGED <<handler, continuing, ticks, drain, dt, draws>>

(* state.draw(ctx)?; *)
Draw ==
    /\ pc = "draw"
    /\ \E r \in HandlerResults :
          /\ log' = Append(log, <<"draw", r>>)
          /\ pc' = AfterDraw(r)
          /\ result' = Propagate(r)
    /\ draws' = draws + 1
    /\ UNCHANGED <<handler, continuing, ticks, drain, dt, updates>>

Next ==
    \/ Acquire
    \/ While
    \/ Tick
    \/ DispatchQuit
    \/ DispatchKeyDown
    \/ DispatchKeyUp
    \/ DispatchMouseButtonDown
    \/ DispatchMouseButtonUp
    \/ DispatchMouseMotion
    \/ DispatchMouseWheel
    \/ DispatchControllerButtonDown
    \/ DispatchControllerButtonUp
    \/ DispatchControllerAxis
    \/ DispatchWindow
    \/ DispatchOther
    \/ GetDelta
    \/ Update
    \/ Draw

Spec == Init /\ [][Next]_vars

TypeOK ==
    /\ pc \in {"acquire", "while", "tick", "poll", "update", "draw", "done"}
    /\ handler \in Handlers
    /\ continuing \in BOOLEAN
    /\ ticks \in 0..MaxIter
    /\ drain \in Drains
    /\ dt \in Deltas \cup {0}
    /\ updates \in 0..MaxIter
    /\ draws \in 0..MaxIter
    /\ result \in {Pending, Ok} \cup {Err(e) : e \in HandlerErrors}
                  \cup {Err([kind |-> "Sdl", msg |-> s]) : s \in PumpErrors}

(* ---------------- reading the record of the current iteration ---------------- *)

IsEscDown(ev) == ev.type = "KeyDown" /\ ev.keycode = Escape
IsEscUp(ev) == ev.type = "KeyUp" /\ ev.keycode = Escape
EscapePositions == {i \in 1..pos : IsEscDown(drain[i])}
QuitPositions == {i \in 1..pos : drain[i].type = "Quit"}
EscapeDrained == EscapePositions # {}
Last(S) == CHOOSE i \in S : \A j \in S : j <= i

QuitCalls == SelectSeq(log, LAMBDA c : c[1] = "quit_event")
UpdateCalls == SelectSeq(log, LAMBDA c : c[1] = "update")
DrawCalls == SelectSeq(log, LAMBDA c : c[1] = "draw")
LastQuitRet == QuitCalls[Len(QuitCalls)][2]
(* the answer quit_event() gave for the Quit drained at position i *)
QuitRetAt(i) == QuitCalls[Cardinality({j \in QuitPositions : j <= i})][2]

Returned(c) == c[Len(c)]
FailedAt(i) == log[i][1] \in {"update", "draw"} /\ Returned(log[i]).tag = "Err"
HandlerFailed == \E i \in 1..Len(log) : FailedAt(i)
UpdateSucceeded == Len(UpdateCalls) = 1 /\ Returned(UpdateCalls[1]) = Ok
DrawSucceeded == Len(DrawCalls) = 1 /\ Returned(DrawCalls[1]) = Ok

(* the step that handles an event of the drain *)
Handles(ev) == pc = "poll" /\ drain' = Append(drain, ev)
EscStep == \E ev \in Events : Handles(ev) /\ IsEscDown(ev)

(* ---------------- C1 ---------------- *)

(* C1, as stated: whenever a Quit drained in iteration k is answered false *)
(* by quit_event(), iteration k+1 never begins and run() returns success   *)
(* after iteration k's one update and one draw (update and draw taken to   *)
(* succeed, as in the claim's scenario).                                   *)
C1_Original ==
    ((\E i \in 1..Len(QuitCalls) : QuitCalls[i][2] = FALSE) /\ ~HandlerFailed) =>
        /\ pc # "tick"
        /\ pc = "done" => (result = Ok /\ Len(UpdateCalls) = 1 /\ Len(DrawCalls) = 1)

(* C1, amended: whenever the last quit_event() call of iteration k's drain *)
(* returns false, the continuation flag is clear, iteration k+1 never      *)
(* begins, and if iteration k's update and draw succeed run() returns      *)
(* success after exactly that one update and one draw; with the default    *)
(* handler and the drain [Quit] on iteration 1 that is one update and one  *)
(* draw in the whole run.                                                  *)
C1_Theorem ==
    /\ (QuitCalls # <<>> /\ LastQuitRet = FALSE) =>
          /\ continuing = FALSE
          /\ pc # "tick"
          /\ (pc = "done" /\ ~HandlerFailed) =>
                (result = Ok /\ UpdateSucceeded /\ DrawSucceeded)
    /\ (handler = "default" /\ ticks = 1 /\ drain = <<[type |-> "Quit"]>>
          /\ pc = "done" /\ ~HandlerFailed) =>
          (result = Ok /\ updates = 1 /\ draws = 1)

C1_Witness ==
    /\ handler = "default" /\ ticks = 1 /\ drain = <<[type |-> "Quit"]>>
    /\ pc = "done" /\ result = Ok /\ updates = 1 /\ draws = 1
    /\ log[1] = <<"quit_event", FALSE>>

(* ---------------- C2 ---------------- *)

C5_Theorem ==
    \A i \in 1..Len(log) :
        (log[i][1] = "update" /\ log[i][3].tag = "Err") =>
            /\ i = Len(log)
            /\ draws = updates - 1
            /\ pc = "done"
            /\ result = log[i][3]

C5_Witness ==
    /\ pc = "done" /\ ticks = 2 /\ updates = 2 /\ draws = 1
    /\ result = Err([kind |-> "Handler", msg |-> "E2"])
    /\ log[Len(log)] = <<"update", dt, result>>

(* ---------------- C6 ---------------- *)

(* C6: if draw returns an error, the call before it is that iteration's    *)
(* update returning success, the failing draw is the last call ever made   *)
(* (no tick, dispatch, update or draw follows), and run() returns exactly  *)
(* that error.                                                             *)
C6_Theorem ==
    \A i \in 1..Len(log) :
        (log[i][1] = "draw" /\ log[i][2].tag = "Err") =>
            /\ i = Len(log)
            /\ i >= 2 /\ log[i - 1][1] = "update" /\ log[i - 1][3] = Ok
            /\ updates = ticks /\ draws = ticks
            /\ pc = "done"
            /\ result = log[i][2]

C6_Witness ==
    /\ pc = "done" /\ ticks = 2 /\ updates = 2 /\ draws = 2
    /\ result = Err([kind |-> "Handler", msg |-> "E1"])
    /\ log[Len(log)] = <<"draw", result>>

(* ---------------- C7 ---------------- *)

NoQuitNoEscape == \A i \in 1..pos : drain[i].type # "Quit" /\ ~IsEscDown(drain[i])

(* the handler method the specification names for each raw event *)
HasCallback(ev) ==
    /\ ev.type # "TextInput"
    /\ ev.type \in {"KeyDown", "KeyUp"} => ev.keycode # NoKey
    /\ ev.type = "Window" => ev.win_event \in {"FocusGained", "FocusLost", "Resized"}
CallbackOf(ev) ==
    CASE ev.type = "Quit" -> "quit_event"
      [] ev.type = "KeyDown" -> "key_down_event"
      [] ev.type = "KeyUp" -> "key_up_event"
      [] ev.type = "MouseButtonDown" -> "mouse_button_down_event"
      [] ev.type = "MouseButtonUp" -> "mouse_button_up_event"
      [] ev.type = "MouseMotion" -> "mouse_motion_event"
      [] ev.type = "MouseWheel" -> "mouse_wheel_event"
      [] ev.type = "ControllerButtonDown" -> "controller_button_down_event"
      [] ev.type = "ControllerButtonUp" -> "controller_button_up_event"
      [] ev.type = "ControllerAxisMotion" -> "controller_axis_event"
      [] ev.type = "Window" /\ ev.win_event = "Resized" -> "resize_event"
      [] ev.type = "Window" /\ ev.win_event # "Resized" -> "focus_event"
Dispatched == SelectSeq(drain, HasCallback)

(* C7, as stated: when the continuation flag is evaluated after a drain of *)
(* N events with no Quit and no escape KeyDown, the iteration has made     *)
(* exactly N handler callbacks, then one update and one draw.              *)
C7_Original ==
    (pc = "while" /\ ticks >= 1 /\ NoQuitNoEscape) =>
        /\ Len(log) = Len(drain) + 2
        /\ log[Len(drain) + 1][1] = "update"
        /\ log[Len(drain) + 2][1] = "draw"

(* C7, amended: when the continuation flag is evaluated after a drain with *)
(* no Quit and no escape KeyDown, the iteration has made exactly one       *)
(* handler callback, the one named for its variant, for each event that    *)
(* has one, in source order, and none for a KeyDown or KeyUp without key   *)
(* code, an unlisted window event or another catch-all variant; then one   *)
(* update and one draw.                                                    *)
C7_Theorem ==
    (pc = "while" /\ ticks >= 1 /\ NoQuitNoEscape) =>
        /\ Len(log) = Len(Dispatched) + 2
        /\ \A i \in 1..Len(Dispatched) : log[i][1] = CallbackOf(Dispatched[i])
        /\ log[Len(Dispatched) + 1][1] = "update"
        /\ log[Len(Dispatched) + 2][1] = "draw"
        /\ updates = ticks /\ draws = ticks

C7_Witness ==
    /\ pc = "while" /\ ticks = 2 /\ Len(drain) = 2
    /\ drain[1].type = "KeyUp" /\ drain[1].keycode = "A"
    /\ drain[2].type = "MouseWheel"
    /\ Len(log) = 4 /\ log[1][1] = "key_up_event" /\ log[2][1] = "mouse_wheel_event"
    /\ log[3][1] = "update" /\ log[4][1] = "draw"

(* ---------------- C8 ---------------- *)

C10_Theorem ==
    [][\A ev \in Events : (Handles(ev) /\ IsEscUp(ev)) =>
          /\ log' = Append(log, <<"key_up_event", Escape, ev.keymod, ev.repeat>>)
          /\ continuing' = continuing
          /\ pc' = "poll"
          /\ result' = result]_vars

C10_Witness ==
    /\ pc = "poll" /\ pos = 1 /\ ticks = 2 /\ continuing = TRUE
    /\ IsEscUp(drain[1]) /\ drain[1].keymod = "LSHIFTMOD" /\ drain[1].repeat = TRUE
    /\ Len(log) = 1 /\ log[1] = <<"key_up_event", Escape, "LSHIFTMOD", TRUE>>

(* ---------------- C11 ---------------- *)

(* the pair <<high, low>> denotes the integer n *)
U32Is(u, n) == u[1] = n \div TwoPow16 /\ u[2] = n % TwoPow16

(* C11, as stated: for every Resized{w, h} the source reports, w and h     *)
(* ranging over signed 32-bit values, the step that handles it calls       *)
(* resize_event with exactly that width and that height.                   *)
C11_Original ==
    [][\A ev \in Events :
          (Handles(ev) /\ ev.type = "Window" /\ ev.win_event = "Resized") =>
              /\ Len(log') = Len(log) + 1
              /\ log'[Len(log')][1] = "resize_event"
              /\ U32Is(log'[Len(log')][2], ev.w)
              /\ U32Is(log'[Len(log')][3], ev.h)]_vars

(* ---------------- C12 ---------------- *)

(* C12: if the event pump cannot be acquired, run() has returned that      *)
(* error, the clock was never ticked and no handler method was ever        *)
(* called.                                                                 *)
C12_Theorem ==
    /\ pc = "acquire" => (result = Pending /\ ticks = 0 /\ log = <<>>)
    /\ result.err.kind = "Sdl" =>
          /\ pc = "done"
          /\ result \in PumpResults \ {Ok}
          /\ ticks = 0 /\ updates = 0 /\ draws = 0
          /\ log = <<>> /\ drain = <<>>
    /\ (ticks > 0 \/ log # <<>>) => result.err.kind # "Sdl"

C12_Witness ==
    /\ pc = "done" /\ ticks = 0 /\ log = <<>>
    /\ result = Err([kind |-> "Sdl", msg |-> "no event pump"])

(* ---------------- C13 ---------------- *)

QuitRefused == \E i \in 1..Len(QuitCalls) : QuitCalls[i][2] = FALSE

Forwarded == SelectSeq(drain, LAMBDA ev : HasCallback(ev) /\ ~IsEscDown(ev))
IsPrefix(a, b) == Len(a) <= Len(b) /\ SubSeq(b, 1, Len(a)) = a

(* C14: the record of an iteration is the callbacks of its drain, one per  *)
(* forwarded event in the order the source yielded them, followed by that  *)
(* iteration's update and then draw; while the drain is going on no update *)
(* or draw of the iteration has happened, within an iteration calls are    *)
(* only ever added at the end, and no event is handled between an          *)
(* iteration's update and the next tick.                                   *)
C14_Theorem ==
    /\ [](/\ Len(log) >= Len(Forwarded)
          /\ \A i \in 1..Len(Forwarded) :
                /\ log[i][1] = CallbackOf(Forwarded[i])
                /\ Forwarded[i].type \in {"KeyDown", "KeyUp"} =>
                      log[i][2] = Forwarded[i].keycode
          /\ \A i \in (Len(Forwarded) + 1)..Len(log) :
                log[i][1] = (IF i = Len(Forwarded) + 1 THEN "update" ELSE "draw")
          /\ Len(log) <= Len(Forwarded) + 2
          /\ pc = "poll" => Len(log) = Len(Forwarded))
    /\ [][/\ ticks' = ticks => IsPrefix(log, log')
          /\ drain' # drain => (pc = "poll" \/ pc = "tick")
          /\ ticks' # ticks => (pc = "tick" /\ log' = <<>> /\ drain' = <<>>)]_vars

C14_Witness ==
    /\ pc = "poll" /\ ticks = 2 /\ pos = 2
    /\ drain[1].type = "MouseWheel" /\ drain[2].type = "Quit"
    /\ Len(log) = 2 /\ log[1][1] = "mouse_wheel_event" /\ log[2][1] = "quit_event"

(* ---------------- C15 ---------------- *)

IsCatchAll(ev) ==
    \/ ev.type = "TextInput"
    \/ ev.type = "Window" /\ ev.win_event \notin {"FocusGained", "FocusLost", "Resized"}

(* C15: handling a raw event of a variant the translator does not list     *)
(* calls no handler method and leaves the continuation flag, the clock and *)
(* the rest of the loop state as they were; the drain goes on.             *)
C15_Theorem ==
    [][\A ev \in Events : (Handles(ev) /\ IsCatchAll(ev)) =>
          /\ log' = log
          /\ continuing' = continuing
          /\ ticks' = ticks /\ dt' = dt
          /\ updates' = updates /\ draws' = draws
          /\ pc' = "poll" /\ result' = result /\ handler' = handler]_vars

C15_Witness ==
    /\ pc = "poll" /\ ticks = 2 /\ pos = 2 /\ continuing = TRUE /\ log = <<>>
    /\ drain[1].type = "Window" /\ drain[1].win_event = "Moved"
    /\ drain[2].type = "TextInput"

(* ---------------- C16 ---------------- *)

(* C16: tick, update and draw each happen at most once per iteration and   *)
(* in that order, around the drain: #draw <= #update <= #tick <= #draw + 1 *)
(* always; during the drain and the delta query the iteration's update and *)
(* draw are still to come, at draw its update is done, at the loop check   *)
(* all three counts agree; update is called with the delta queried in the  *)
(* same iteration, after the drain.                                        *)
C16_Theorem ==
    /\ draws <= updates /\ updates <= ticks /\ ticks <= draws + 1
    /\ pc \in {"poll", "update"} =>
          (updates = ticks - 1 /\ draws = ticks - 1 /\ Len(log) = Len(Forwarded))
    /\ pc = "poll" => dt = 0
    /\ pc = "update" => dt \in Deltas
    /\ pc = "draw" => (updates = ticks /\ draws = ticks - 1 /\ Len(UpdateCalls) = 1)
    /\ pc \in {"while", "tick"} => (updates = ticks /\ draws = ticks)
    /\ Len(UpdateCalls) <= 1 /\ Len(DrawCalls) <= 1
    /\ \A i \in 1..Len(UpdateCalls) : UpdateCalls[i][2] = dt /\ dt \in Deltas

C16_Witness ==
    /\ pc = "draw" /\ ticks = 2 /\ updates = 2 /\ draws = 1 /\ dt = 17
    /\ pos = 1 /\ Len(log) = 2 /\ log[2][1] = "update" /\ log[2][2] = 17

(* ---------------- C17 ---------------- *)

PassThrough(ev) ==
    \/ ev.type \in {"MouseButtonDown", "MouseButtonUp", "MouseMotion", "MouseWheel",
                    "ControllerButtonDown", "ControllerButtonUp", "ControllerAxisMotion"}
    \/ ev.type = "KeyDown" /\ ev.keycode \notin {NoKey, Escape}
    \/ ev.type = "Window" /\ ev.win_event \in {"FocusGained", "FocusLost"}

(* the call the specification names for each of these variants *)
NamedCall(ev) ==
    CASE ev.type = "KeyDown" -> <<"key_down_event", ev.keycode, ev.keymod, ev.repeat>>
      [] ev.type = "MouseButtonDown" -> <<"mouse_button_down_event", ev.mouse_btn, ev.x, ev.y>>
      [] ev.type = "MouseButtonUp" -> <<"mouse_button_up_event", ev.mouse_btn, ev.x, ev.y>>
      [] ev.type = "MouseMotion" ->
            <<"mouse_motion_event", ev.mousestate, ev.x, ev.y, ev.xrel, ev.yrel>>
      [] ev.type = "MouseWheel" -> <<"mouse_wheel_event", ev.x, ev.y>>
      [] ev.type = "ControllerButtonDown" -> <<"controller_button_down_event", ev.button, ev.which>>
      [] ev.type = "ControllerButtonUp" -> <<"controller_button_up_event", ev.button, ev.which>>
      [] ev.type = "ControllerAxisMotion" ->
            <<"controller_axis_event", ev.axis, ev.value, ev.which>>
      [] ev.type = "Window" -> <<"focus_event", ev.win_event = "FocusGained">>

(* C17: handling a mouse, controller, non-escape KeyDown or focus event    *)
(* makes exactly one handler call, the one named for the variant with the  *)
(* event's payload unchanged, and nothing else.                            *)
C17_Theorem ==
    [][\A ev \in Events : (Handles(ev) /\ PassThrough(ev)) =>
          /\ Len(log') = Len(log) + 1
          /\ SubSeq(log', 1, Len(log)) = log
          /\ log'[Len(log')] = NamedCall(ev)
          /\ continuing' = continuing /\ pc' = "poll" /\ result' = result]_vars

C17_Witness ==
    /\ pc = "poll" /\ ticks = 1 /\ pos = 2
    /\ drain[1].type = "MouseMotion" /\ drain[2].type = "Window"
    /\ Len(log) = 2
    /\ log[1] = <<"mouse_motion_event", "ms", 1, 2, 3, 4>>
    /\ log[2] = <<"focus_event", FALSE>>

(* ---------------- C18 ---------------- *)

DrainOver == pc \in {"update", "draw", "while"} /\ ticks >= 1
LastAnswer == IF QuitCalls = <<>> THEN TRUE ELSE LastQuitRet

C19_Theorem ==
    /\ [][(Handles([type |-> "Quit"]) /\ log' = Append(log, <<"quit_event", FALSE>>)) =>
            (pc' = "poll" /\ result' = Pending /\ dt' = dt
               /\ updates' = updates /\ draws' = draws)]_vars
    /\ []((QuitRefused /\ pc \in {"poll", "update"}) =>
            /\ UpdateCalls = <<>> /\ DrawCalls = <<>>
            /\ Len(log) = Len(Forwarded)
            /\ \A i \in 1..Len(Forwarded) : log[i][1] = CallbackOf(Forwarded[i]))

C19_Witness ==
    /\ pc = "update" /\ ticks = 1 /\ continuing = FALSE
    /\ pos = 2 /\ drain[1].type = "Quit" /\ drain[2].type = "MouseWheel"
    /\ Len(log) = 2 /\ log[1] = <<"quit_event", FALSE>> /\ log[2][1] = "mouse_wheel_event"

(* ---------------- C20 ---------------- *)

HasNoKeycode(ev) == ev.type \in {"KeyDown", "KeyUp"} /\ ev.keycode = NoKey

(* C20: handling a KeyDown or KeyUp that carries no key code calls no      *)
(* handler method and leaves the continuation flag unchanged.              *)
C20_Theorem ==
    [][\A ev \in Events : (Handles(ev) /\ HasNoKeycode(ev)) =>
          (log' = log /\ continuing' = continuing /\ pc' = "poll" /\ result' = result)]_vars

C20_Witness ==
    /\ pc = "poll" /\ ticks = 1 /\ pos = 2 /\ continuing = TRUE /\ log = <<>>
    /\ drain[1].type = "KeyDown" /\ drain[1].keycode = NoKey
    /\ drain[2].type = "KeyUp" /\ drain[2].keycode = NoKey
====
